---- MODULE Spec2Model ----
(***************************************************************************)
(* A model of the TotalSegmentator harness: run staging (utils.py), mask   *)
(* combination and persistence (segmentation.py), the batch driver         *)
(* (main.py) and the blur sweep with its Dice score (experiement.py).      *)
(*                                                                         *)
(* File names and path components are sequences of one-character strings,  *)
(* so that suffix tests, stems and formatted names are computed and not    *)
(* assumed.  A volume is a record [shape, data]: data is the flattened (C  *)
(* order) voxel array of the given shape.                                  *)
(***************************************************************************)
EXTENDS Integers, Sequences, FiniteSets, TLC

VARIABLES
    clock,            \* wall clock, seconds of the day (datetime.now())
    dirs,             \* directories that exist
    files,            \* regular files: [dir, name, vol, by, run]
    pc,               \* position of the running entry point
    entry,            \* "main" (main.py) or "sweep" (experiement.py) or "none"
    ct_files,         \* main: the discovered CT files
    i,                \* main: index of the file being processed; sweep: index of sigma
    output_directory, \* the run directory in use
    nii_files,        \* combine_segmentations: the filtered listing it iterates
    combined,         \* combine_segmentations: its outcome [exc, vol]
    exc,              \* the exception that ended the entry point ("none" if none)
    attempted,        \* main: CT files whose processing was started
    output_paths,     \* main: output_paths
    dice_scores,      \* sweep: dice_scores
    first,            \* API calls: the outcome of the first call on the directory
    last,             \* API calls: the outcome of the latest call on the directory
    ncalls,           \* API calls: number of calls made
    staged,           \* staging calls made: [ct_file, parent_path, timestamp, dir]
    y_true, y_pred,   \* dice_score: its arguments
    f1                \* dice_score: its result [num, den] (a rational), or "none"

vars == <<clock, dirs, files, pc, entry, ct_files, i, output_directory, nii_files,
          combined, exc, attempted, output_paths, dice_scores, first, last, ncalls,
          staged, y_true, y_pred, f1>>

fsVars == <<dirs, files>>
driverVars == <<pc, entry, ct_files, i, output_directory, nii_files, combined, exc,
                attempted, output_paths, dice_scores>>
apiVars == <<first, last, ncalls>>
diceVars == <<y_true, y_pred, f1>>

(***************************************************************************)
(* Bounds of the model.                                                    *)
(***************************************************************************)
MaxTime == 1      \* seconds the clock may advance
MaxStaged == 2    \* staging calls in the staging specification
MaxCalls == 2     \* combine / save calls in the API specification
BlurSteps == 2    \* sweep points (blur_steps)
NumVoxels == 3    \* voxels of the volumes dice_score is applied to

\* a path that was not given / not yet set (every real path has a component)
None == <<>>

(***************************************************************************)
(* Strings.                                                                *)
(***************************************************************************)
\* The characters used, in code point order (str comparison is by code point).
AsciiOrder ==
    <<".", "0", "1", "2", "3", "4", "5", "6", "7", "8", "9", "S", "T", "_",
      "a", "b", "c", "d", "e", "g", "i", "l", "m", "n", "o", "p", "r", "s", "t",
      "u", "x", "z">>

Ord(c) == CHOOSE k \in 1..Len(AsciiOrder) : AsciiOrder[k] = c

\* str.endswith
EndsWith(s, suffix) ==
    /\ Len(s) >= Len(suffix)
    /\ SubSeq(s, Len(s) - Len(suffix) + 1, Len(s)) = suffix

\* str.rfind('.') as a 1-based position, 0 when there is no dot
RFindDot(s) ==
    IF \E k \in 1..Len(s) : s[k] = "."
    THEN CHOOSE k \in 1..Len(s) : s[k] = "." /\ \A j \in (k+1)..Len(s) : s[j] # "."
    ELSE 0

\* PurePath.stem: the final component without its last suffix; a leading or a
\* trailing dot starts no suffix.
Stem(name) ==
    LET k == RFindDot(name)
    IN  IF 1 < k /\ k < Len(name) THEN SubSeq(name, 1, k - 1) ELSE name

\* PurePath.parent and PurePath.name of a path given as its components
Parent(path) == SubSeq(path, 1, Len(path) - 1)
Name(path) == IF Len(path) = 0 THEN <<>> ELSE path[Len(path)]

Digit(n) == AsciiOrder[n + 2]
TwoDigits(n) == <<Digit((n \div 10) % 10), Digit(n % 10)>>

\* datetime.now().strftime("%Y%m%d_%H%M%S") on the day of the run; t is the
\* second of that day.
Strftime(t) ==
    <<"2", "0", "2", "4", "1", "1", "0", "2", "_">>
        \o TwoDigits(t \div 3600) \o TwoDigits((t \div 60) % 60) \o TwoDigits(t % 60)

get_timestamp(t) == Strftime(t)

(***************************************************************************)
(* utils.create_output_directory                                           *)
(***************************************************************************)
ToolTag == <<"T", "o", "t", "a", "l", "S", "e", "g", "m", "e", "n", "t", "a", "t", "o", "r">>
PurposeTag == <<"s", "e", "g">>

OutputFolderName(ct_file, t) ==
    ToolTag \o <<"_">> \o Name(Parent(ct_file)) \o <<"_">> \o Stem(Name(ct_file))
        \o <<"_">> \o PurposeTag \o <<"_">> \o Strftime(t)

\* The directory create_output_directory returns (and creates, exist_ok=True).
create_output_directory(ct_file, parent_path, t) ==
    LET parent == IF parent_path = None THEN Parent(ct_file) ELSE parent_path
    IN  Append(parent, OutputFolderName(ct_file, t))

(***************************************************************************)
(* Volumes (numpy arrays as nibabel loads them; the affine is carried      *)
(* through unchanged by the code and is left out).                         *)
(***************************************************************************)
\* the array a failed call does not return
NoVolume == [shape |-> <<0>>, data |-> <<>>]

RECURSIVE Size(_)
Size(shape) == IF shape = <<>> THEN 1 ELSE Head(shape) * Size(Tail(shape))

VoxelValues == {0, 1}

Volumes(shape) ==
    {[shape |-> shape, data |-> d] : d \in [1..Size(shape) -> VoxelValues]}

\* np.zeros(shape, dtype=np.uint8)
Zeros(shape) == [shape |-> shape, data |-> [p \in 1..Size(shape) |-> 0]]

IsPrefix(s, t) == Len(s) <= Len(t) /\ SubSeq(t, 1, Len(s)) = s

\* arr[mask] = value is accepted by numpy iff the boolean mask has no more
\* dimensions than arr and matches arr along each of its own dimensions;
\* otherwise it raises IndexError.
BooleanIndexOk(arrShape, maskShape) == IsPrefix(maskShape, arrShape)

\* arr[mask > 0] = value: a mask of fewer dimensions selects whole trailing
\* sub-arrays.
AssignWhere(arr, mask, value) ==
    LET tail == Size(arr.shape) \div Size(mask.shape)
    IN  [arr EXCEPT !.data =
            [p \in 1..Size(arr.shape) |->
                IF mask.data[((p - 1) \div tail) + 1] > 0 THEN value ELSE arr.data[p]]]

(***************************************************************************)
(* segmentation.combine_segmentations                                      *)
(***************************************************************************)
NiiGz == <<".", "n", "i", "i", ".", "g", "z">>
Nii == <<".", "n", "i", "i">>

\* the filter of the directory listing: f.endswith('.nii.gz')
IsMaskNameLoose(f) == EndsWith(f, NiiGz) \/ EndsWith(f, Nii)
IsMaskName(f) == EndsWith(f, NiiGz)

\* nii_files: the listing, filtered, in the order os.listdir returned it
NiiFiles(listing) == SelectSeq(listing, IsMaskName)

FilesIn(fs, dir) == {f \in fs : f.dir = dir}
NamesIn(fs, dir) == {f.name : f \in FilesIn(fs, dir)}

\* load_nifti_file(os.path.join(dir, name))
load_nifti_file(fs, dir, name) ==
    (CHOOSE f \in fs : f.dir = dir /\ f.name = name).vol

\* the loop of lines 43-50 from position idx on; IndexError when the boolean
\* index does not fit combined_data
RECURSIVE FuseFrom(_, _, _, _, _)
FuseFrom(fs, dir, names, idx, combined_data) ==
    IF idx > Len(names) THEN [exc |-> "none", vol |-> combined_data]
    ELSE LET data == load_nifti_file(fs, dir, names[idx])
         IN  IF BooleanIndexOk(combined_data.shape, data.shape)
             THEN FuseFrom(fs, dir, names, idx + 1,
                           AssignWhere(combined_data, data, idx))
             ELSE [exc |-> "IndexError", vol |-> NoVolume]

\* combine_segmentations(dir) when os.listdir(dir) returns `listing`:
\* nii_files[0] raises IndexError on an empty list.
combine_segmentations(fs, dir, listing) ==
    LET names == NiiFiles(listing)
    IN  IF names = <<>> THEN [exc |-> "IndexError", vol |-> NoVolume]
        ELSE FuseFrom(fs, dir, names, 1,
                      Zeros(load_nifti_file(fs, dir, names[1]).shape))

\* the orders os.listdir may return the entries of a directory in
RECURSIVE Perms(_)
Perms(S) ==
    IF S = {} THEN {<<>>}
    ELSE UNION {{<<x>> \o p : p \in Perms(S \ {x})} : x \in S}

Listings(fs, dir) == Perms(NamesIn(fs, dir))

\* Path(output_path) / f"_combined_{get_timestamp()}.nii"
CombinedName(t) ==
    <<"_", "c", "o", "m", "b", "i", "n", "e", "d", "_">> \o get_timestamp(t) \o Nii

\* writing a file creates or overwrites the entry of that name
WriteFile(fs, dir, name, vol, by, run) ==
    {f \in fs : ~(f.dir = dir /\ f.name = name)}
        \cup {[dir |-> dir, name |-> name, vol |-> vol, by |-> by, run |-> run]}

\* save_combined_nifti(combined_data, affine, combined_output_path)
save_combined_nifti(fs, dir, vol, t, run) ==
    WriteFile(fs, dir, CombinedName(t), vol, "combiner", run)

(***************************************************************************)
(* experiement.binarize_data and experiement.dice_score                    *)
(***************************************************************************)
\* (data > threshold).astype(np.float32), threshold = 0.5
binarize_data(vol) ==
    [vol EXCEPT !.data = [p \in DOMAIN vol.data |-> IF 2 * vol.data[p] > 1 THEN 1 ELSE 0]]

RECURSIVE SumSeq(_)
SumSeq(s) == IF s = <<>> THEN 0 ELSE Head(s) + SumSeq(Tail(s))

\* numpy broadcasting of two shapes: aligned at the last dimension, a
\* dimension of 1 stretches
PadShape(s, n) == [k \in 1..n |-> IF k <= n - Len(s) THEN 1 ELSE s[k - (n - Len(s))]]
MaxLen(s, t) == IF Len(s) >= Len(t) THEN Len(s) ELSE Len(t)
Broadcastable(s, t) ==
    LET n == MaxLen(s, t)
    IN  \A k \in 1..n :
            \/ PadShape(s, n)[k] = PadShape(t, n)[k]
            \/ PadShape(s, n)[k] = 1
            \/ PadShape(t, n)[k] = 1
BroadcastShape(s, t) ==
    LET n == MaxLen(s, t)
    IN  [k \in 1..n |-> IF PadShape(s, n)[k] = 1 THEN PadShape(t, n)[k]
                                                ELSE PadShape(s, n)[k]]

\* the multi-index (0-based) of flat position p (0-based) in `shape`, and back
Stride(shape, k) == Size(SubSeq(shape, k + 1, Len(shape)))
Unravel(p, shape) == [k \in 1..Len(shape) |-> (p \div Stride(shape, k)) % shape[k]]
Ravel(idx, shape) == SumSeq([k \in 1..Len(shape) |-> idx[k] * Stride(shape, k)])

\* the element of vol that broadcasting to `shape` puts at flat position p
BroadcastAt(vol, shape, p) ==
    LET own == PadShape(vol.shape, Len(shape))
        m == Unravel(p, shape)
        j == [k \in 1..Len(shape) |-> IF own[k] = 1 THEN 0 ELSE m[k]]
    IN  vol.data[Ravel(j, own) + 1]

\* 1e-6 as 1 / EpsInv
EpsInv == 1000000

\* dice_score without its both-empty case (lines 52-53 dropped)
dice_score_no_empty_case(yt, yp) ==
    [exc |-> "none", num |-> 2 * SumSeq([p \in 1..Len(yt.data) |-> yt.data[p] * yp.data[p]]) * EpsInv,
     den |-> (SumSeq(yt.data) + SumSeq(yp.data)) * EpsInv + 1]

\* dice_score(y_true, y_pred): the float it returns as the exact rational
\* num / den, or the ValueError numpy raises for shapes that do not broadcast
dice_score(yt, yp) ==
    IF SumSeq(yt.data) = 0 /\ SumSeq(yp.data) = 0
    THEN [exc |-> "none", num |-> 1, den |-> 1]
    ELSE IF ~Broadcastable(yt.shape, yp.shape)
    THEN [exc |-> "ValueError", num |-> 0, den |-> 1]
    ELSE LET shape == BroadcastShape(yt.shape, yp.shape)
             intersect == SumSeq([p \in 1..Size(shape) |->
                              BroadcastAt(yt, shape, p - 1) * BroadcastAt(yp, shape, p - 1)])
             denominator == SumSeq(yt.data) + SumSeq(yp.data)
         IN  [exc |-> "none", num |-> 2 * intersect * EpsInv,
              den |-> denominator * EpsInv + 1]

(***************************************************************************)
(* Initial values of the variables an entry point does not use.            *)
(***************************************************************************)
NoOutcome == [exc |-> "none", vol |-> NoVolume]
NoCall == [op |-> "none", order |-> <<>>, nlabels |-> 0, outcome |-> NoOutcome]
NoScore == [exc |-> "none", num |-> 0, den |-> 0]

ClockStart == 59

IdleDriver ==
    /\ pc = "idle" /\ entry = "none" /\ ct_files = <<>> /\ i = 0
    /\ output_directory = None /\ nii_files = <<>> /\ combined = NoOutcome
    /\ exc = "none" /\ attempted = {} /\ output_paths = <<>> /\ dice_scores = <<>>
IdleApi == first = NoCall /\ last = NoCall /\ ncalls = 0
IdleDice == y_true = NoVolume /\ y_pred = NoVolume /\ f1 = NoScore

\* the clock advances
Tick ==
    /\ clock < ClockStart + MaxTime
    /\ clock' = clock + 1
    /\ UNCHANGED <<fsVars, driverVars, apiVars, staged, diceVars>>

(***************************************************************************)
(* Staging calls: create_output_directory on its own.                      *)
(***************************************************************************)
\* source files: /a/s/c.gz, /b/s/c.gz, /a/s/c.bz (bz stands for any other
\* suffix), /a/s/t_c.gz, /a/s_t/c.gz
SourceFiles ==
    { <<<<"a">>, <<"s">>, <<"c", ".", "g", "z">>>>,
      <<<<"b">>, <<"s">>, <<"c", ".", "g", "z">>>>,
      <<<<"a">>, <<"s">>, <<"c", ".", "b", "z">>>>,
      <<<<"a">>, <<"s">>, <<"t", "_", "c", ".", "g", "z">>>>,
      <<<<"a">>, <<"s", "_", "t">>, <<"c", ".", "g", "z">>>> }
OutRoot == <<<<"o">>>>
ParentChoices == {None, OutRoot}

InitStage ==
    /\ clock = ClockStart
    /\ dirs = {Parent(f) : f \in SourceFiles} \cup {OutRoot}
    /\ files = {}
    /\ staged = {}
    /\ IdleDriver /\ IdleApi /\ IdleDice

\* one call create_output_directory(ct_file, parent_path)
Stage ==
    /\ Cardinality(staged) < MaxStaged
    /\ \E ct_file \in SourceFiles, parent_path \in ParentChoices :
          LET dir == create_output_directory(ct_file, parent_path, clock)
          IN  /\ dirs' = dirs \cup {dir}
              /\ staged' = staged \cup
                    {[ct_file |-> ct_file, parent_path |-> parent_path,
                      timestamp |-> get_timestamp(clock), dir |-> dir]}
    /\ UNCHANGED <<clock, files, driverVars, apiVars, diceVars>>

NextStage == Stage \/ Tick
SpecStage == InitStage /\ [][NextStage]_vars

(***************************************************************************)
(* Dice score calls: dice_score on its own, over binary volumes.           *)
(***************************************************************************)
InitDice ==
    /\ clock = ClockStart /\ dirs = {} /\ files = {} /\ staged = {}
    /\ IdleDriver /\ IdleApi
    /\ y_true \in Volumes(<<NumVoxels>>)
    /\ y_pred \in Volumes(<<NumVoxels>>)
    /\ f1 = NoScore

CallDice ==
    /\ f1 = NoScore
    /\ f1' = dice_score(y_true, y_pred)
    /\ UNCHANGED <<clock, fsVars, driverVars, apiVars, staged, y_true, y_pred>>

NextDice == CallDice
SpecDice == InitDice /\ [][NextDice]_vars

(***************************************************************************)
(* Calls of combine_segmentations and save_combined_segmentation on one    *)
(* directory of mask files.                                                *)
(***************************************************************************)
MaskA == <<"a", ".", "n", "i", "i", ".", "g", "z">>
MaskB == <<"b", ".", "n", "i", "i", ".", "g", "z">>
MaskNames == {MaskA, MaskB}

\* what the external segmenter may leave in a directory: each mask file absent
\* (NoVolume) or holding a volume
ApiShapes == {<<2>>, <<1>>, <<2, 1>>}
ApiVolumes == UNION {Volumes(sh) : sh \in ApiShapes}
SegmenterOutputs(volumes) == [MaskNames -> volumes \cup {NoVolume}]

\* totalsegmentator(..., output=dir): the mask files it writes
SegmenterWrites(fs, dir, out, run) ==
    {f \in fs : ~(f.dir = dir /\ f.name \in MaskNames /\ out[f.name] # NoVolume)}
        \cup {[dir |-> dir, name |-> n, vol |-> out[n], by |-> "segmenter", run |-> run]
                : n \in {m \in MaskNames : out[m] # NoVolume}}

ApiDir == <<<<"r">>>>

InitApi ==
    /\ clock = ClockStart
    /\ dirs = {ApiDir}
    /\ \E out \in SegmenterOutputs(ApiVolumes) : files = SegmenterWrites({}, ApiDir, out, 0)
    /\ staged = {}
    /\ IdleDriver /\ IdleApi /\ IdleDice

\* the listing restricted to the files the segmenter wrote
MaskOrder(fs, dir, listing) ==
    LET Written(n) == \E f \in FilesIn(fs, dir) : f.name = n /\ f.by = "segmenter"
    IN  SelectSeq(listing, Written)

CallRecord(op, fs, dir, listing, outcome) ==
    [op |-> op, order |-> MaskOrder(fs, dir, listing),
     nlabels |-> Len(NiiFiles(listing)), outcome |-> outcome]

Recorded(rec) ==
    /\ ncalls' = ncalls + 1
    /\ first' = IF ncalls = 0 THEN rec ELSE first
    /\ last' = rec

\* combine_segmentations(ApiDir)
ApiCombine ==
    /\ ncalls < MaxCalls
    /\ \E listing \in Listings(files, ApiDir) :
          LET outcome == combine_segmentations(files, ApiDir, listing)
          IN  /\ nii_files' = NiiFiles(listing)
              /\ combined' = outcome
              /\ Recorded(CallRecord("combine", files, ApiDir, listing, outcome))
    /\ UNCHANGED <<clock, fsVars, pc, entry, ct_files, i, output_directory, exc,
                   attempted, output_paths, dice_scores, staged, diceVars>>

\* save_combined_segmentation(ApiDir); nib.save may fail (IOError)
ApiSaveCombined ==
    /\ ncalls < MaxCalls
    /\ \E listing \in Listings(files, ApiDir), saved \in BOOLEAN :
          LET outcome == combine_segmentations(files, ApiDir, listing)
          IN  /\ nii_files' = NiiFiles(listing)
              /\ combined' = outcome
              /\ Recorded(CallRecord("save", files, ApiDir, listing, outcome))
              /\ files' = IF outcome.exc = "none" /\ saved
                          THEN save_combined_nifti(files, ApiDir, outcome.vol, clock, 0)
                          ELSE files
    /\ UNCHANGED <<clock, dirs, pc, entry, ct_files, i, output_directory, exc,
                   attempted, output_paths, dice_scores, staged, diceVars>>

NextApi == ApiCombine \/ ApiSaveCombined \/ Tick
SpecCombine == InitApi /\ [][NextApi]_vars

(***************************************************************************)
(* The entry points: main.main over the CT files of a tree, and            *)
(* experiement.calculate_dice_vs_blur over the sweep points.               *)
(***************************************************************************)
CtName == <<"c", "t", ".", "n", "i", "i", ".", "g", "z">>
BaseDirectory == <<<<"d">>>>
CtFiles == { <<<<"d">>, <<"s", "1">>, CtName>>, <<<<"d">>, <<"s", "2">>, CtName>> }
SweepDir == <<<<"o", "u", "t">>>>
BlurredName ==
    <<"b", "l", "u", "r", "r", "e", "d", "_", "i", "n", "p", "u", "t">> \o NiiGz

\* the shape of the CT volume and of the ground truth
CtShape == <<1>>
RunShapes == {<<1>>, <<1, 1>>}
RunVolumes == UNION {Volumes(sh) : sh \in RunShapes}

\* utils.find_ct_files: base_directory.rglob('*nii.gz')
find_ct_files(fs, base) ==
    {Append(f.dir, f.name) : f \in {g \in fs : IsPrefix(base, g.dir)
                                               /\ EndsWith(g.name, Tail(NiiGz))}}

Init ==
    /\ clock = ClockStart
    /\ dirs = {Parent(f) : f \in CtFiles}
    /\ files = {[dir |-> Parent(f), name |-> Name(f), vol |-> Zeros(CtShape),
                 by |-> "input", run |-> 0] : f \in CtFiles}
    /\ staged = {}
    /\ IdleDriver /\ IdleApi /\ IdleDice

\* an exception nothing catches ends the entry point
Raise(e) == pc' = "crashed" /\ exc' = e

\* main.py lines 9-21: the configuration is loaded and the CT files are found
MainStart ==
    /\ pc = "idle"
    /\ entry' = "main"
    /\ ct_files' \in Perms(find_ct_files(files, BaseDirectory))
    /\ i' = 1
    /\ pc' = "stage"
    /\ UNCHANGED <<clock, fsVars, output_directory, nii_files, combined, exc, attempted,
                   output_paths, dice_scores, apiVars, staged, diceVars>>

\* main.py line 30: create_output_directory(ct_file); mkdir may fail (OSError)
MainStage ==
    /\ pc = "stage" /\ entry = "main" /\ i <= Len(ct_files)
    /\ attempted' = attempted \cup {ct_files[i]}
    /\ \E made \in BOOLEAN :
          IF made
          THEN LET dir == create_output_directory(ct_files[i], None, clock)
               IN  /\ dirs' = dirs \cup {dir}
                   /\ output_directory' = dir
                   /\ pc' = "segment"
                   /\ exc' = exc
          ELSE /\ Raise("OSError")
               /\ UNCHANGED <<dirs, output_directory>>
    /\ UNCHANGED <<clock, files, entry, ct_files, i, nii_files, combined, output_paths,
                   dice_scores, apiVars, staged, diceVars>>

\* main.py line 25: the loop is over
MainDone ==
    /\ pc = "stage" /\ entry = "main" /\ i > Len(ct_files)
    /\ pc' = "done"
    /\ UNCHANGED <<clock, fsVars, entry, ct_files, i, output_directory, nii_files,
                   combined, exc, attempted, output_paths, dice_scores, apiVars, staged,
                   diceVars>>

\* the call of totalsegmentator (segmentation.py line 17, experiement.py line
\* 90): it writes mask files into the run directory, or raises
Segment ==
    /\ pc = "segment"
    /\ \/ \E out \in SegmenterOutputs(RunVolumes) :
              /\ files' = SegmenterWrites(files, output_directory, out, i)
              /\ pc' = "combine"
              /\ exc' = exc
       \/ /\ Raise("ExternalToolError")
          /\ files' = files
    /\ UNCHANGED <<clock, dirs, entry, ct_files, i, output_directory, nii_files,
                   combined, attempted, output_paths, dice_scores, apiVars, staged,
                   diceVars>>

\* segmentation.py lines 56-57: the statement after combine_segmentations is
\* reached only when it returned
AfterCombineSwallowed(outcome) == "save"
AfterCombine(outcome) == IF outcome.exc = "none" THEN "save" ELSE "crashed"

\* save_combined_segmentation, line 56: combine_segmentations(output_path)
Combine ==
    /\ pc = "combine"
    /\ \E listing \in Listings(files, output_directory) :
          LET outcome == combine_segmentations(files, output_directory, listing)
          IN  /\ nii_files' = NiiFiles(listing)
              /\ combined' = outcome
              /\ pc' = AfterCombine(outcome)
              /\ exc' = outcome.exc
    /\ UNCHANGED <<clock, fsVars, entry, ct_files, i, output_directory, attempted,
                   output_paths, dice_scores, apiVars, staged, diceVars>>

\* save_combined_segmentation, lines 57-59: the combined file is written
\* (nib.save may fail) and combined_data returned
Save ==
    /\ pc = "save"
    /\ \E saved \in BOOLEAN :
          IF saved
          THEN /\ files' = save_combined_nifti(files, output_directory, combined.vol,
                                               clock, i)
               /\ pc' = IF entry = "main" THEN "append" ELSE "score"
               /\ exc' = exc
          ELSE /\ Raise("IOError")
               /\ files' = files
    /\ nii_files' = <<>>
    /\ UNCHANGED <<clock, dirs, entry, ct_files, i, output_directory, combined,
                   attempted, output_paths, dice_scores, apiVars, staged, diceVars>>

\* main.py lines 37-38: the run directory is appended, the loop goes on
MainAppend ==
    /\ pc = "append"
    /\ output_paths' = Append(output_paths, output_directory)
    /\ i' = i + 1
    /\ pc' = "stage"
    /\ UNCHANGED <<clock, fsVars, entry, ct_files, output_directory, nii_files, combined,
                   exc, attempted, dice_scores, apiVars, staged, diceVars>>

\* calculate_dice_vs_blur, lines 111-118: the ground truth is loaded and
\* binarized, the output directory made (parents=True, exist_ok=True)
SweepStart ==
    /\ pc = "idle"
    /\ entry' = "sweep"
    /\ y_true' \in {binarize_data(v) : v \in Volumes(CtShape)}
    /\ output_directory' = SweepDir
    /\ dirs' = dirs \cup {SweepDir}
    /\ i' = 1
    /\ pc' = "blur"
    /\ UNCHANGED <<clock, files, ct_files, nii_files, combined, exc, attempted,
                   output_paths, dice_scores, apiVars, staged, y_pred, f1>>

\* lines 122 and 86-87: the blurred volume (whatever the filter makes of the
\* input) is saved into the output directory as blurred_input.nii.gz
SweepBlur ==
    /\ pc = "blur" /\ i <= BlurSteps
    /\ \E blurred \in Volumes(CtShape) :
          files' = WriteFile(files, output_directory, BlurredName, blurred, "blur", i)
    /\ pc' = "segment"
    /\ UNCHANGED <<clock, dirs, entry, ct_files, i, output_directory, nii_files,
                   combined, exc, attempted, output_paths, dice_scores, apiVars, staged,
                   diceVars>>

\* line 133: the sweep is over
SweepDone ==
    /\ pc = "blur" /\ i > BlurSteps
    /\ pc' = "done"
    /\ UNCHANGED <<clock, fsVars, entry, ct_files, i, output_directory, nii_files,
                   combined, exc, attempted, output_paths, dice_scores, apiVars, staged,
                   diceVars>>

\* lines 126-131: the label volume is binarized and scored against the
\* ground truth
SweepScore ==
    /\ pc = "score"
    /\ LET segmented_output == binarize_data(combined.vol)
           dice == dice_score(y_true, segmented_output)
       IN  /\ y_pred' = segmented_output
           /\ f1' = dice
           /\ IF dice.exc = "none"
              THEN /\ dice_scores' = Append(dice_scores, dice)
                   /\ i' = i + 1
                   /\ pc' = "blur"
                   /\ exc' = exc
              ELSE /\ Raise(dice.exc)
                   /\ UNCHANGED <<dice_scores, i>>
    /\ UNCHANGED <<clock, fsVars, entry, ct_files, output_directory, nii_files, combined,
                   attempted, output_paths, apiVars, staged, y_true>>

\* the batch driver
Next ==
    \/ MainStart \/ MainStage \/ MainDone \/ MainAppend
    \/ Segment \/ Combine \/ Save
    \/ Tick

Spec == Init /\ [][Next]_vars

\* the blur sweep
NextSweep ==
    \/ SweepStart \/ SweepBlur \/ SweepDone \/ SweepScore
    \/ Segment \/ Combine \/ Save
    \/ Tick

SpecSweep == Init /\ [][NextSweep]_vars

(***************************************************************************)
(* Properties.                                                             *)
(***************************************************************************)
\* str comparison: lexicographic by code point
RECURSIVE NameLess(_, _)
NameLess(a, b) ==
    IF b = <<>> THEN FALSE
    ELSE IF a = <<>> THEN TRUE
    ELSE IF Head(a) = Head(b) THEN NameLess(Tail(a), Tail(b))
    ELSE Ord(Head(a)) < Ord(Head(b))

\* the 1-based position of name in sorted(names)
SortedIndex(name, names) == 1 + Cardinality({m \in names : NameLess(m, name)})

ApiMasks == {f \in FilesIn(files, ApiDir) : EndsWith(f.name, NiiGz)}
ApiCombinedFiles == {f \in FilesIn(files, ApiDir) : f.by = "combiner"}

SetMax(S) == IF S = {} THEN 0 ELSE CHOOSE x \in S : \A y \in S : y <= x

\* the label the sorted-order rule gives voxel p
SortedLabel(p) ==
    SetMax({SortedIndex(f.name, {g.name : g \in ApiMasks}) :
                f \in {g \in ApiMasks : g.vol.data[p] > 0}})

\* C1: whatever order the listing came in, a label volume combine returns
\* from masks of one shape holds at every voxel the sorted-order index of the
\* last mask (in sorted order) that is positive there, and 0 if none is.
C1_SortedLastWins ==
    (/\ ncalls > 0
     /\ last.outcome.exc = "none"
     /\ \A f \in ApiMasks : f.vol.shape = last.outcome.vol.shape)
        => \A p \in 1..Size(last.outcome.vol.shape) :
               last.outcome.vol.data[p] = SortedLabel(p)

C3_StagingUnique ==
    \A r1, r2 \in staged :
        (/\ r1.parent_path = r2.parent_path
         /\ (r1.ct_file # r2.ct_file \/ r1.timestamp # r2.timestamp))
            => r1.dir # r2.dir

\* C4: when the batch driver has ended, every discovered file was processed
\* (attempted): a failure on one file does not stop the batch.
C4_BatchIsolation ==
    pc \in {"done", "crashed"} => \A k \in 1..Len(ct_files) : ct_files[k] \in attempted

ShapeOf(name) == load_nifti_file(files, ApiDir, name).shape

\* C5: a combine call over masks one of which differs in shape from the
\* first loaded one fails (GridMismatchError in the specification; here any
\* exception is taken for it) and returns no volume; a volume combine
\* returns has the shape of every mask.
C5_ShapeValidation ==
    (ncalls > 0 /\ nii_files # <<>>) =>
        /\ (\E k \in 1..Len(nii_files) : ShapeOf(nii_files[k]) # ShapeOf(nii_files[1]))
              => (last.outcome.exc # "none" /\ last.outcome.vol = NoVolume)
        /\ last.outcome.exc = "none"
              => \A k \in 1..Len(nii_files) : ShapeOf(nii_files[k]) = last.outcome.vol.shape

\* C6: a combine call on a directory without any mask file fails with
\* EmptyMaskSetError, and no combined file is written there.
C6_EmptyMaskSet ==
    (ncalls > 0 /\ ApiMasks = {}) =>
        (last.outcome.exc = "EmptyMaskSetError" /\ ApiCombinedFiles = {})

RunCombinedFiles ==
    {f \in FilesIn(files, output_directory) : f.by = "combiner" /\ f.run = i}

\* C7: a combined file of the current run exists only once combine has
\* returned a volume for it (it then holds that volume), so none exists when
\* combine failed; and the combine step itself leaves the files as they are.
C7_PersistAfterCombine ==
    /\ [](\A f \in RunCombinedFiles :
              /\ combined.exc = "none"
              /\ pc \notin {"segment", "combine", "save"}
              /\ f.vol = combined.vol)
    /\ [][pc = "combine" => files' = files]_vars

C7_Witness ==
    /\ pc = "crashed" /\ combined.exc = "IndexError" /\ Len(nii_files) = 2
    /\ i = 2
    /\ \E f \in files : f.by = "combiner" /\ f.run = 1
    /\ RunCombinedFiles = {}

Empty(vol) == SumSeq(vol.data) = 0
Disjoint(a, b) == \A p \in DOMAIN a.data : a.data[p] * b.data[p] = 0

\* C8 as stated: dice(A, A) is exactly 1.0 for every A, and dice(A, B) is 0
\* for disjoint A and B that are not both empty.
C8_DiceBoundary ==
    f1 # NoScore =>
        /\ y_true = y_pred => f1.num = f1.den
        /\ (Disjoint(y_true, y_pred) /\ ~(Empty(y_true) /\ Empty(y_pred))) => f1.num = 0

\* C8 as amended: dice(A, A) is exactly 1.0 when A is empty; for a non-empty
\* A it is 2|A| / (2|A| + 1e-6), not above 1.0 and less than 1e-6 away from it;
\* dice(A, B) is 0 for disjoint A and B that are not both empty.
C8_DiceBoundaryAmended ==
    f1 # NoScore =>
        /\ (y_true = y_pred /\ Empty(y_true)) => f1.num = f1.den
        /\ (y_true = y_pred /\ ~Empty(y_true)) =>
              /\ f1.num = 2 * SumSeq(y_true.data) * EpsInv
              /\ f1.den = f1.num + 1
              /\ f1.num <= f1.den
              /\ (f1.den - f1.num) * EpsInv < f1.den
        /\ (Disjoint(y_true, y_pred) /\ ~(Empty(y_true) /\ Empty(y_pred))) => f1.num = 0

C8_Witness ==
    /\ f1 # NoScore /\ y_true = y_pred /\ SumSeq(y_true.data) = NumVoxels
    /\ f1.num # f1.den

\* C9: the run directory is empty when the segmenter is called, and the files
\* combine has read are exactly the mask files the segmenter wrote in this run.
C9_RunIsolation ==
    /\ pc = "segment" => FilesIn(files, output_directory) = {}
    /\ pc = "save" =>
          {nii_files[k] : k \in 1..Len(nii_files)} =
              {f.name : f \in {g \in FilesIn(files, output_directory) :
                                  g.by = "segmenter" /\ g.run = i}}

====
